---- MODULE Spec2Model ----
(***************************************************************************)
(* copy-projects.js: a recursive, filtered copy of one directory tree into *)
(* another.  The model keeps one file system (a function from absolute     *)
(* paths to nodes), the script's globals (SOURCE_DIR, stats), the position *)
(* of main() and the chain of suspended async calls (copyDirectory and     *)
(* copyFile frames, one awaited I/O operation at a time).                  *)
(***************************************************************************)
EXTENDS Integers, Sequences, FiniteSets, TLC

VARIABLES
    fs,          \* the file system: absolute path -> [kind, data]
    fs0,         \* the file system when the script was first started
    SOURCE_DIR,  \* global SOURCE_DIR (an absolute path once prompted)
    outputDir,   \* main's outputDir
    stats,       \* global stats
    pc,          \* position of main(): prompt, validate, start, walk, exited
    validation,  \* main's validation.error: "" when valid, "pending" before
    signal,      \* the signal delivered to the process: "none" or "SIGINT"
    stack,       \* suspended async calls, innermost last
    exitCode,    \* argument of process.exit, null while running
    stdout,      \* the summaries printed by printSummary
    clock,       \* what Date.now() returns
    faults,      \* I/O failures the environment has injected so far
    io,          \* the file system calls of the walk that changed the file
                 \* system or failed, in the order in which they ended
    earlier      \* what the earlier runs of the script left: their file
                 \* system, answers and stats at exit

vars == <<fs, fs0, SOURCE_DIR, outputDir, stats, pc, validation, signal, stack,
          exitCode, stdout, clock, faults, io, earlier>>

(***************************************************************************)
(* Bounds of the model.                                                    *)
(***************************************************************************)
MaxFaults == 1      \* injected I/O failures per run
MaxEntries == 3     \* entries of the source tree below the source root
MaxPathLen == 4     \* segments of the longest path the system accepts (PATH_MAX)

\* JavaScript null (no timestamp is negative and no exit status is).
null == -1

\* ToNumber: what arithmetic makes of a value; null counts as 0.
ToNumber(x) == IF x = null THEN 0 ELSE x

(***************************************************************************)
(* Configuration: IGNORE_DIRS.                                             *)
(***************************************************************************)
IGNORE_DIRS ==
    <<"node_modules", "dist", "build", "out", ".next", ".nuxt", ".svelte-kit",
      ".output", ".cache", ".turbo", ".vite", ".parcel-cache", ".eslintcache",
      ".angular", ".sass-cache", ".vercel", "coverage", ".nyc_output", ".tmp",
      "tmp", "temp">>

\* Variant of shouldIgnore: a name that contains an ignored name matches too.
shouldIgnore_substring(dirName) ==
    \/ \E i \in 1..Len(IGNORE_DIRS) : IGNORE_DIRS[i] = dirName
    \/ dirName = "my-node_modules-archive"

\* Array.prototype.includes: strict equality with some element.
shouldIgnore(dirName) ==
    \E i \in 1..Len(IGNORE_DIRS) : IGNORE_DIRS[i] = dirName

(***************************************************************************)
(* Paths are sequences of segments; <<>> is the file system root.          *)
(***************************************************************************)
join(p, name) == Append(p, name)

dirname(p) == SubSeq(p, 1, Len(p) - 1)

IsPrefix(p, q) == Len(p) <= Len(q) /\ SubSeq(q, 1, Len(p)) = p

\* Length of the longest common prefix of two paths.
CommonLen(from, to) ==
    LET n == IF Len(from) < Len(to) THEN Len(from) ELSE Len(to)
        agree == {k \in 0..n : \A i \in 1..k : from[i] = to[i]}
    IN  CHOOSE k \in agree : \A j \in agree : j <= k

\* path.relative(from, to): one ".." for every segment of `from` below the
\* common prefix, then the segments of `to` below it.
relative(from, to) ==
    LET k == CommonLen(from, to)
    IN  [i \in 1..(Len(from) - k) |-> ".."] \o SubSeq(to, k + 1, Len(to))

getRelativePath(fullPath) == relative(SOURCE_DIR, fullPath)

(***************************************************************************)
(* The file system.                                                        *)
(***************************************************************************)
Dir == [kind |-> "dir", data |-> <<>>]
File(d) == [kind |-> "file", data |-> d]
Symlink == [kind |-> "symlink", data |-> <<>>]

Exists(f, p) == p \in DOMAIN f
IsDir(f, p) == Exists(f, p) /\ f[p].kind = "dir"
IsFile(f, p) == Exists(f, p) /\ f[p].kind = "file"

Prefixes(p) == {SubSeq(p, 1, k) : k \in 0..Len(p)}

Children(f, p) == {q \in DOMAIN f : Len(q) = Len(p) + 1 /\ IsPrefix(p, q)}

\* fs.stat(p): the error code, or "" when it succeeds.
\* The path is longer than the system accepts: ENAMETOOLONG.
TooLong(p) == Len(p) > MaxPathLen

StatError(f, p) ==
    IF TooLong(p) THEN "ENAMETOOLONG"
    ELSE IF \E a \in Prefixes(p) : a # p /\ Exists(f, a) /\ ~IsDir(f, a) THEN "ENOTDIR"
    ELSE IF ~Exists(f, p) THEN "ENOENT"
    ELSE ""

\* fs.mkdir(p, {recursive: true}): fails when p or one of its ancestors exists
\* and is not a directory; an existing directory is no error.
MkdirError(f, p) ==
    IF TooLong(p) THEN "ENAMETOOLONG"
    ELSE IF \E a \in Prefixes(p) : a # p /\ Exists(f, a) /\ ~IsDir(f, a) THEN "ENOTDIR"
    ELSE IF Exists(f, p) /\ ~IsDir(f, p) THEN "EEXIST"
    ELSE ""

\* The directories fs.mkdir(p, {recursive: true}) has to create.
MkdirMissing(f, p) == {a \in Prefixes(p) : ~Exists(f, a)}

Mkdir(f, p) == [q \in (DOMAIN f) \cup MkdirMissing(f, p) |-> IF Exists(f, q) THEN f[q] ELSE Dir]

\* fs.readdir(p, {withFileTypes: true}).
ReaddirError(f, p) ==
    IF StatError(f, p) # "" THEN StatError(f, p)
    ELSE IF ~IsDir(f, p) THEN "ENOTDIR"
    ELSE ""

Dirents(f, p) == {[name |-> q[Len(q)], kind |-> f[q].kind] : q \in Children(f, p)}

\* fs.readFile(p).
ReadFileError(f, p) ==
    IF StatError(f, p) # "" THEN StatError(f, p)
    ELSE IF IsDir(f, p) THEN "EISDIR"
    ELSE ""

\* fs.writeFile(p, data): creates or truncates p, then writes data.
WriteFileError(f, p) ==
    IF TooLong(p) THEN "ENAMETOOLONG"
    ELSE IF StatError(f, dirname(p)) # "" THEN StatError(f, dirname(p))
    ELSE IF ~IsDir(f, dirname(p)) THEN "ENOTDIR"
    ELSE IF IsDir(f, p) THEN "EISDIR"
    ELSE ""

\* Variant of WriteFile: an existing file is appended to, not replaced.
WriteFile_append(f, p, d) ==
    [q \in (DOMAIN f) \cup {p} |->
        IF q # p THEN f[q]
        ELSE IF p \in DOMAIN f /\ f[p].kind = "file" THEN File(f[p].data \o d)
        ELSE File(d)]

WriteFile(f, p, d) == [q \in (DOMAIN f) \cup {p} |-> IF q = p THEN File(d) ELSE f[q]]

(***************************************************************************)
(* The inputs: the source tree, what the destination holds beforehand and  *)
(* what the user answers to the two prompts.                               *)
(***************************************************************************)
cwd == <<"s">>
dest == <<"d">>
\* A regular file outside both trees.
other == <<"f">>

\* Every source tree of the model is a parent-closed part of this one.
SourceUniverse ==
    (<<"a.txt">> :> File(<<1>>)) @@
    (<<"tmp">> :> File(<<2, 3>>)) @@
    (<<"link">> :> Symlink) @@
    (<<"src">> :> Dir) @@
    (<<"src", "util.js">> :> File(<<4, 5>>)) @@
    (<<"src", "dist">> :> Dir) @@
    (<<"src", "dist", "o.js">> :> File(<<6>>)) @@
    (<<"node_modules">> :> Dir) @@
    (<<"node_modules", "index.js">> :> File(<<7>>)) @@
    (<<"my-node_modules-archive">> :> Dir) @@
    (<<"my-node_modules-archive", "z.js">> :> File(<<8>>))

SourceTrees ==
    {T \in SUBSET (DOMAIN SourceUniverse) :
        /\ Cardinality(T) <= MaxEntries
        /\ \A p \in T : Len(p) > 1 => dirname(p) \in T}

\* What the destination may hold before the run, relative to it: nothing, or
\* in the place of one source entry a directory or a file where the source
\* has a directory, a file or a directory where the source has a file.
DestUniverse ==
    (<<"src">> :> {Dir, File(<<9>>)}) @@
    (<<"a.txt">> :> {File(<<9>>), Dir})

DestTrees ==
    {<<>>} \cup
    UNION {{(p :> n) : n \in DestUniverse[p]} : p \in DOMAIN DestUniverse}

InitialFs(T, D, destExists) ==
    [q \in {<<>>, cwd, other} \cup {cwd \o p : p \in T}
           \cup (IF destExists THEN {dest} \cup {dest \o p : p \in DOMAIN D} ELSE {})
        |-> IF q \in {<<>>, cwd, dest} THEN Dir
            ELSE IF q = other THEN File(<<>>)
            ELSE IF IsPrefix(cwd, q) THEN SourceUniverse[SubSeq(q, 2, Len(q))]
            ELSE D[SubSeq(q, 2, Len(q))]]

\* An empty answer is <<>>: the user pressed Enter.
SourceAnswers == {<<>>, cwd, <<"nosuch">>, other}
OutputAnswers == {<<>>, dest, other, join(other, "x")}

\* const stats = {...}, evaluated when the script is loaded.
InitialStats ==
    [filesCopied |-> 0, directoriesCreated |-> 0, bytesCopied |-> 0,
     errors |-> <<>>, startTime |-> null, endTime |-> null]

Init ==
    /\ \E T \in SourceTrees, D \in DestTrees, destExists \in BOOLEAN :
          /\ ~destExists => D = <<>>
          /\ DOMAIN D \subseteq T
          /\ fs = InitialFs(T, D, destExists)
    /\ fs0 = fs
    /\ SOURCE_DIR = <<>>
    /\ outputDir = <<>>
    /\ stats = InitialStats
    /\ pc = "prompt"
    /\ validation = "pending"
    /\ signal = "none"
    /\ stack = <<>>
    /\ exitCode = null
    /\ stdout = <<>>
    /\ clock = 1
    /\ faults = 0
    /\ io = <<>>
    /\ earlier = <<>>

(***************************************************************************)
(* Helpers of the script.                                                  *)
(***************************************************************************)
ErrorRecord(type, path, error) == [type |-> type, path |-> path, error |-> error]

PushError(st, type, path, error) ==
    [st EXCEPT !.errors = Append(@, ErrorRecord(type, path, error))]

\* printSummary: the counters, the duration and the errors, as printed.
Summary(st) ==
    [filesCopied |-> st.filesCopied,
     directoriesCreated |-> st.directoriesCreated,
     bytesCopied |-> st.bytesCopied,
     duration |-> ToNumber(st.endTime) - ToNumber(st.startTime),
     errors |-> st.errors]

\* Variant of ExitStatus: the errors are not looked at.
ExitStatus_zero(st) == 0

\* The status main() exits with after the walk.
ExitStatus(st) == IF Len(st.errors) > 0 THEN 1 ELSE 0

\* A call of copyDirectory or copyFile, suspended at an await.
Frame(fn, at, sourcePath, destPath, isRoot) ==
    [fn |-> fn, at |-> at, sourcePath |-> sourcePath, destPath |-> destPath,
     isRoot |-> isRoot, entries |-> <<>>, size |-> 0, content |-> <<>>]

Top == stack[Len(stack)]
Pop == SubSeq(stack, 1, Len(stack) - 1)
SetTop(frame) == [stack EXCEPT ![Len(stack)] = frame]

\* The orders in which a directory listing may come back.
Orders(S) ==
    {o \in [1..Cardinality(S) -> S] : \A i, j \in 1..Cardinality(S) : i # j => o[i] # o[j]}

\* The environment may make an I/O call fail that would have succeeded.
CanFault == faults < MaxFaults

\* The log of the file system calls of the walk, after a call made by Top.
Logged(call, ok, created) ==
    Append(io, [call |-> call, ok |-> ok, sourcePath |-> Top.sourcePath,
                destPath |-> Top.destPath, created |-> created])

Failed(call) == Logged(call, FALSE, {})

Walking(fn, at) ==
    /\ pc = "walk"
    /\ stack # <<>>
    /\ Top.fn = fn
    /\ Top.at = at

(***************************************************************************)
(* main(), up to the start of the walk.                                    *)
(***************************************************************************)
\* promptForSourceDir, path.resolve, promptForOutputDir and the check of an
\* empty output directory.
Prompt ==
    /\ pc = "prompt"
    /\ \E answer \in SourceAnswers, out \in OutputAnswers :
          /\ SOURCE_DIR' = IF answer = <<>> THEN cwd ELSE answer
          /\ outputDir' = out
          /\ IF out = <<>>
             THEN pc' = "exited" /\ exitCode' = 1
             ELSE pc' = "validate" /\ exitCode' = exitCode
    /\ clock' = clock + 1
    /\ UNCHANGED <<fs, fs0, earlier, stats, validation, signal, stack, stdout, faults, io>>

\* Variant of validatePathsError: the isDirectory() checks are missing.
validatePathsError_anyKind(f, sourceDir, destDir, mkdirFails) ==
    IF StatError(f, sourceDir) # "" THEN StatError(f, sourceDir)
    ELSE IF StatError(f, destDir) = "" THEN ""
    ELSE IF StatError(f, destDir) = "ENOENT"
         THEN IF MkdirError(f, destDir) # "" THEN MkdirError(f, destDir)
              ELSE IF mkdirFails THEN "EACCES"
              ELSE ""
    ELSE StatError(f, destDir)

\* validatePaths(sourceDir, destDir): the error message, or "" when valid.
\* mkdirFails is the outcome of creating a missing destination directory.
validatePathsError(f, sourceDir, destDir, mkdirFails) ==
    IF StatError(f, sourceDir) # "" THEN StatError(f, sourceDir)
    ELSE IF ~IsDir(f, sourceDir) THEN "Source path is not a directory"
    ELSE IF StatError(f, destDir) = ""
         THEN IF ~IsDir(f, destDir)
              THEN "Destination path exists but is not a directory"
              ELSE ""
    ELSE IF StatError(f, destDir) = "ENOENT"
         THEN IF MkdirError(f, destDir) # "" THEN MkdirError(f, destDir)
              ELSE IF mkdirFails THEN "EACCES"
              ELSE ""
    ELSE StatError(f, destDir)

\* validatePaths and what main() does with its result.
ValidatePaths ==
    /\ pc = "validate"
    /\ \E mkdirFails \in BOOLEAN :
          /\ mkdirFails => CanFault /\ StatError(fs, outputDir) = "ENOENT"
          /\ LET error == validatePathsError(fs, SOURCE_DIR, outputDir, mkdirFails)
              creates == error = "" /\ ~Exists(fs, outputDir)
             IN  /\ fs' = IF creates THEN Mkdir(fs, outputDir) ELSE fs
                 /\ faults' = IF mkdirFails THEN faults + 1 ELSE faults
                 /\ validation' = error
                 /\ IF error = ""
                    THEN pc' = "start" /\ exitCode' = exitCode
                    ELSE pc' = "exited" /\ exitCode' = 1
    /\ clock' = clock + 1
    /\ UNCHANGED <<fs0, earlier, SOURCE_DIR, outputDir, stats, signal, stack, stdout, io>>

\* stats.startTime = Date.now(); copyDirectory(SOURCE_DIR, outputDir, true)
\* runs up to its first await.
StartCopy ==
    /\ pc = "start"
    /\ stats' = [stats EXCEPT !.startTime = clock]
    /\ stack' = <<Frame("copyDirectory", "mkdir", SOURCE_DIR, outputDir, TRUE)>>
    /\ pc' = "walk"
    /\ UNCHANGED <<fs, fs0, earlier, SOURCE_DIR, outputDir, validation, signal, exitCode, stdout,
                   clock, faults, io>>

(***************************************************************************)
(* ensureDirectory and copyDirectory.                                      *)
(***************************************************************************)
\* The path ensureDirectory reports for a directory it could not create.
ensureDirectoryPath(dirPath) == getRelativePath(dirPath)

\* "Count directory (except root)".
CountDirectory(st, isRoot) ==
    IF ~isRoot THEN [st EXCEPT !.directoriesCreated = @ + 1] ELSE st

\* await ensureDirectory(destPath), the check of its result and the count.
EnsureDirectory ==
    /\ Walking("copyDirectory", "mkdir")
    /\ \E fail \in BOOLEAN :
          /\ fail => CanFault /\ MkdirError(fs, Top.destPath) = ""
          /\ LET error == IF fail THEN "EACCES" ELSE MkdirError(fs, Top.destPath)
             IN  IF error # ""
                 THEN /\ stats' = PushError(stats, "directory", ensureDirectoryPath(Top.destPath), error)
                      /\ stack' = Pop
                      /\ io' = Failed("mkdir")
                      /\ fs' = fs
                 ELSE /\ fs' = Mkdir(fs, Top.destPath)
                      /\ io' = Logged("mkdir", TRUE, MkdirMissing(fs, Top.destPath))
                      /\ stats' = CountDirectory(stats, Top.isRoot)
                      /\ stack' = SetTop([Top EXCEPT !.at = "readdir"])
          /\ faults' = IF fail THEN faults + 1 ELSE faults
    /\ clock' = clock + 1
    /\ UNCHANGED <<fs0, earlier, SOURCE_DIR, outputDir, pc, validation, signal, exitCode, stdout>>

\* Variant of readdirFailed: the failure is swallowed without a record.
readdirFailed_silent(st, sourcePath, error) == st

\* The catch of copyDirectory, entered when the listing failed.
readdirFailed(st, sourcePath, error) ==
    PushError(st, "directory", getRelativePath(sourcePath), error)

\* await fs.readdir(sourcePath, {withFileTypes: true}).
Readdir ==
    /\ Walking("copyDirectory", "readdir")
    /\ \E fail \in BOOLEAN :
          /\ fail => CanFault /\ ReaddirError(fs, Top.sourcePath) = ""
          /\ LET error == IF fail THEN "EACCES" ELSE ReaddirError(fs, Top.sourcePath)
             IN  IF error # ""
                 THEN /\ stats' = readdirFailed(stats, Top.sourcePath, error)
                      /\ stack' = Pop
                      /\ io' = Failed("readdir")
                 ELSE /\ \E order \in Orders(Dirents(fs, Top.sourcePath)) :
                            stack' = SetTop([Top EXCEPT !.entries = order, !.at = "loop"])
                      /\ stats' = stats
                      /\ io' = io
          /\ faults' = IF fail THEN faults + 1 ELSE faults
    /\ clock' = clock + 1
    /\ UNCHANGED <<fs, fs0, earlier, SOURCE_DIR, outputDir, pc, validation, signal, exitCode, stdout>>

\* Dirent.isDirectory() and Dirent.isFile().
isDirectory(entry) == entry.kind = "dir"
\* Variant of isFile: everything that is not a directory passes for a file.
isFile_notDirectory(entry) == entry.kind # "dir"
isFile(entry) == entry.kind = "file"

\* Variant of Decision: the ignore set is applied to every entry.
Decision_ignoreFiles(entry) ==
    IF shouldIgnore(entry.name) THEN "skip"
    ELSE IF isDirectory(entry) THEN "recurse"
    ELSE IF isFile(entry) THEN "copy"
    ELSE "skip"

\* What one iteration of the loop does with an entry.
Decision(entry) ==
    IF isDirectory(entry) /\ shouldIgnore(entry.name) THEN "skip"
    ELSE IF isDirectory(entry) THEN "recurse"
    ELSE IF isFile(entry) THEN "copy"
    ELSE "skip"

Looping ==
    /\ Walking("copyDirectory", "loop")
    /\ Top.entries # <<>>

Entry == Head(Top.entries)

Advanced == SetTop([Top EXCEPT !.entries = Tail(@)])

\* Variant of Await: the call is started and not awaited, the loop goes on
\* and the callee runs once its callers have returned.
Await_unawaited(frame) == <<frame>> \o Advanced

\* await f(...): the loop is suspended at this entry until the callee returns.
Await(frame) == Append(Advanced, frame)

\* An ignored directory (continue), a symlink or another special file.
SkipEntry ==
    /\ Looping
    /\ Decision(Entry) = "skip"
    /\ stack' = Advanced
    /\ UNCHANGED <<fs, fs0, earlier, SOURCE_DIR, outputDir, stats, pc, validation, signal, exitCode,
                   stdout, clock, faults, io>>

\* copyDirectory(sourceEntryPath, destEntryPath, false), up to its first await.
Recurse ==
    /\ Looping
    /\ Decision(Entry) = "recurse"
    /\ stack' = Await(Frame("copyDirectory", "mkdir", join(Top.sourcePath, Entry.name),
                          join(Top.destPath, Entry.name), FALSE))
    /\ UNCHANGED <<fs, fs0, earlier, SOURCE_DIR, outputDir, stats, pc, validation, signal, exitCode,
                   stdout, clock, faults, io>>

\* copyFile(sourceEntryPath, destEntryPath), up to its first await.
CallCopyFile ==
    /\ Looping
    /\ Decision(Entry) = "copy"
    /\ stack' = Await(Frame("copyFile", "stat", join(Top.sourcePath, Entry.name),
                          join(Top.destPath, Entry.name), FALSE))
    /\ UNCHANGED <<fs, fs0, earlier, SOURCE_DIR, outputDir, stats, pc, validation, signal, exitCode,
                   stdout, clock, faults, io>>

\* The loop is over: return {success: true}.
Return ==
    /\ Walking("copyDirectory", "loop")
    /\ Top.entries = <<>>
    /\ stack' = Pop
    /\ UNCHANGED <<fs, fs0, earlier, SOURCE_DIR, outputDir, stats, pc, validation, signal, exitCode,
                   stdout, clock, faults, io>>

(***************************************************************************)
(* copyFile.                                                               *)
(***************************************************************************)
\* Variant of copyFileFailed: the failed file is counted as copied.
copyFileFailed_counted(st, sourcePath, error) ==
    [PushError(st, "file", getRelativePath(sourcePath), error) EXCEPT !.filesCopied = @ + 1]

\* Variant of copyFileFailed: the failure is recorded twice.
copyFileFailed_twice(st, sourcePath, error) ==
    PushError(PushError(st, "file", getRelativePath(sourcePath), error),
              "file", getRelativePath(sourcePath), error)

\* The catch of copyFile.
copyFileFailed(st, sourcePath, error) ==
    PushError(st, "file", getRelativePath(sourcePath), error)

\* Variant of copyFileSucceeded: the counters are not updated.
copyFileSucceeded_uncounted(st, size) == st

\* Variant of copyFileSucceeded: the bytes are added, the file is not counted.
copyFileSucceeded_bytesOnly(st, size) == [st EXCEPT !.bytesCopied = @ + size]
\* stats.filesCopied++; stats.bytesCopied += fileStats.size.
copyFileSucceeded(st, size) ==
    [st EXCEPT !.filesCopied = @ + 1, !.bytesCopied = @ + size]

\* await fs.stat(sourcePath).
Stat ==
    /\ Walking("copyFile", "stat")
    /\ \E fail \in BOOLEAN :
          /\ fail => CanFault /\ StatError(fs, Top.sourcePath) = ""
          /\ LET error == IF fail THEN "EACCES" ELSE StatError(fs, Top.sourcePath)
             IN  IF error # ""
                 THEN /\ stats' = copyFileFailed(stats, Top.sourcePath, error)
                      /\ stack' = Pop
                      /\ io' = Failed("stat")
                 ELSE /\ stack' = SetTop([Top EXCEPT !.size = Len(fs[Top.sourcePath].data),
                                                      !.at = "readFile"])
                      /\ stats' = stats
                      /\ io' = io
          /\ faults' = IF fail THEN faults + 1 ELSE faults
    /\ clock' = clock + 1
    /\ UNCHANGED <<fs, fs0, earlier, SOURCE_DIR, outputDir, pc, validation, signal, exitCode, stdout>>

\* await fs.readFile(sourcePath).
ReadFile ==
    /\ Walking("copyFile", "readFile")
    /\ \E fail \in BOOLEAN :
          /\ fail => CanFault /\ ReadFileError(fs, Top.sourcePath) = ""
          /\ LET error == IF fail THEN "EACCES" ELSE ReadFileError(fs, Top.sourcePath)
             IN  IF error # ""
                 THEN /\ stats' = copyFileFailed(stats, Top.sourcePath, error)
                      /\ stack' = Pop
                      /\ io' = Failed("readFile")
                 ELSE /\ stack' = SetTop([Top EXCEPT !.content = fs[Top.sourcePath].data,
                                                      !.at = "writeFile"])
                      /\ stats' = stats
                      /\ io' = io
          /\ faults' = IF fail THEN faults + 1 ELSE faults
    /\ clock' = clock + 1
    /\ UNCHANGED <<fs, fs0, earlier, SOURCE_DIR, outputDir, pc, validation, signal, exitCode, stdout>>

\* await fs.writeFile(destPath, fileContent).  A write that fails half way
\* (the disk is full) leaves the file truncated.
WriteFileCall ==
    /\ Walking("copyFile", "writeFile")
    /\ \E outcome \in {"done", "failed", "truncated"} :
          /\ outcome # "done" => CanFault /\ WriteFileError(fs, Top.destPath) = ""
          /\ LET error == IF outcome = "failed" THEN "EACCES"
                          ELSE IF outcome = "truncated" THEN "ENOSPC"
                          ELSE WriteFileError(fs, Top.destPath)
             IN  IF error # ""
                 THEN /\ stats' = copyFileFailed(stats, Top.sourcePath, error)
                      /\ stack' = Pop
                      /\ fs' = IF outcome = "truncated"
                               THEN WriteFile(fs, Top.destPath, <<>>) ELSE fs
                      /\ io' = Failed("writeFile")
                 ELSE /\ fs' = WriteFile(fs, Top.destPath, Top.content)
                      /\ io' = Logged("writeFile", TRUE, {})
                      /\ stack' = SetTop([Top EXCEPT !.at = "written"])
                      /\ stats' = stats
          /\ faults' = IF outcome # "done" THEN faults + 1 ELSE faults
    /\ clock' = clock + 1
    /\ UNCHANGED <<fs0, earlier, SOURCE_DIR, outputDir, pc, validation, signal, exitCode, stdout>>

\* copyFile resumes after the write: the counters, return {success: true}.
Written ==
    /\ Walking("copyFile", "written")
    /\ stats' = copyFileSucceeded(stats, Top.size)
    /\ stack' = Pop
    /\ UNCHANGED <<fs, fs0, earlier, SOURCE_DIR, outputDir, pc, validation, signal, exitCode, stdout,
                   clock, faults, io>>

(***************************************************************************)
(* The end of main() and the SIGINT handler.                               *)
(***************************************************************************)
\* copyDirectory(SOURCE_DIR, outputDir, true) has returned.  All of its body
\* is inside its own try, so it never rejects and the catch of main(), which
\* pushes the record of type fatal, is never entered.
Finish ==
    /\ pc = "walk"
    /\ stack = <<>>
    /\ stats' = [stats EXCEPT !.endTime = clock]
    /\ stdout' = Append(stdout, Summary(stats'))
    /\ exitCode' = ExitStatus(stats)
    /\ pc' = "exited"
    /\ UNCHANGED <<fs, fs0, earlier, SOURCE_DIR, outputDir, validation, signal, stack, clock, faults, io>>

\* Variant of interrupted: endTime is not set.
interrupted_keep(st, now) == st

\* stats.endTime = Date.now() in the handler of SIGINT.
interrupted(st, now) == [st EXCEPT !.endTime = now]

\* process.on('SIGINT'): whatever main() was waiting for is abandoned.
SIGINT ==
    /\ pc # "exited"
    /\ signal' = "SIGINT"
    /\ stats' = interrupted(stats, clock)
    /\ stdout' = Append(stdout, Summary(stats'))
    /\ exitCode' = 1
    /\ pc' = "exited"
    /\ UNCHANGED <<fs, fs0, earlier, SOURCE_DIR, outputDir, validation, stack, clock, faults, io>>

\* Everything after the prompts.
Run ==
    \/ ValidatePaths
    \/ StartCopy
    \/ EnsureDirectory
    \/ Readdir
    \/ SkipEntry
    \/ Recurse
    \/ CallCopyFile
    \/ Return
    \/ Stat
    \/ ReadFile
    \/ WriteFileCall
    \/ Written
    \/ Finish
    \/ SIGINT

Next == Prompt \/ Run

Spec == Init /\ [][Next]_vars

(***************************************************************************)
(* The script run a second time, once a first run has walked to its end   *)
(* without an injected I/O failure: a new process, with the stats and the  *)
(* globals of a freshly loaded script, on the file system the first run    *)
(* left.                                                                   *)
(***************************************************************************)
Rerun ==
    /\ pc = "exited"
    /\ signal = "none"
    /\ stats.endTime # null
    /\ faults = 0
    /\ earlier = <<>>
    /\ earlier' = <<[fs |-> fs, SOURCE_DIR |-> SOURCE_DIR, outputDir |-> outputDir,
                     stats |-> stats]>>
    /\ stats' = InitialStats
    /\ SOURCE_DIR' = <<>>
    /\ outputDir' = <<>>
    /\ pc' = "prompt"
    /\ validation' = "pending"
    /\ stack' = <<>>
    /\ exitCode' = null
    /\ stdout' = <<>>
    /\ io' = <<>>
    /\ UNCHANGED <<fs, fs0, signal, clock, faults>>

(***************************************************************************)
(* The script given an output directory inside the source directory: the   *)
(* same program after other answers to the prompts, on a file system that  *)
(* holds the source tree only.                                             *)
(***************************************************************************)
NestedAnswers == {join(cwd, "backup")}

InitNested ==
    /\ \E T \in SourceTrees : fs = InitialFs(T, <<>>, FALSE)
    /\ fs0 = fs
    /\ SOURCE_DIR = <<>>
    /\ outputDir = <<>>
    /\ stats = InitialStats
    /\ pc = "prompt"
    /\ validation = "pending"
    /\ signal = "none"
    /\ stack = <<>>
    /\ exitCode = null
    /\ stdout = <<>>
    /\ clock = 1
    /\ faults = 0
    /\ io = <<>>
    /\ earlier = <<>>

PromptNested ==
    /\ pc = "prompt"
    /\ \E answer \in SourceAnswers, out \in NestedAnswers :
          /\ SOURCE_DIR' = IF answer = <<>> THEN cwd ELSE answer
          /\ outputDir' = out
          /\ pc' = "validate"
    /\ clock' = clock + 1
    /\ UNCHANGED <<fs, fs0, earlier, stats, validation, signal, stack, exitCode, stdout,
                   faults, io>>

NextNested == PromptNested \/ Run

SpecNested == InitNested /\ [][NextNested]_vars

NextRerun == Next \/ Rerun

SpecRerun == Init /\ [][NextRerun]_vars

(***************************************************************************)
(* Vocabulary of the properties.                                           *)
(***************************************************************************)
IgnoreSet == {IGNORE_DIRS[i] : i \in 1..Len(IGNORE_DIRS)}

\* The paths below `root` in file system f, relative to `root`.
RelPathsUnder(f, root) ==
    {SubSeq(q, Len(root) + 1, Len(q)) : q \in {x \in DOMAIN f : IsPrefix(root, x) /\ x # root}}

SourceEntries == RelPathsUnder(fs0, SOURCE_DIR)
SourceNode(r) == fs0[SOURCE_DIR \o r]

\* r lies below a source directory whose name is in the ignore set.
BelowIgnored(r) ==
    \E k \in 1..(Len(r) - 1) :
        /\ SourceNode(SubSeq(r, 1, k)).kind = "dir"
        /\ r[k] \in IgnoreSet

IgnoredDirectory(r) == SourceNode(r).kind = "dir" /\ r[Len(r)] \in IgnoreSet

\* The regular files the walk has to copy.
CopyableFiles ==
    {r \in SourceEntries : SourceNode(r).kind = "file" /\ ~BelowIgnored(r)}

RECURSIVE SumSizes(_)
SumSizes(S) ==
    IF S = {} THEN 0
    ELSE LET r == CHOOSE x \in S : TRUE
         IN  Len(SourceNode(r).data) + SumSizes(S \ {r})

\* main() ran the walk to its end and exited, uninterrupted.
Completed == pc = "exited" /\ signal = "none" /\ stats.endTime # null

\* The source tree holds regular files and directories only, and no
\* directory named in the ignore set.
CleanSource ==
    \A r \in SourceEntries :
        /\ SourceNode(r).kind \in {"file", "dir"}
        /\ ~IgnoredDirectory(r)

\* The destination was missing or an empty directory when the script started.
EmptyDestination == outputDir # <<>> /\ Children(fs0, outputDir) = {}

FailedCalls == SelectSeq(io, LAMBDA e : ~e.ok)
WrittenFiles == {io[i].destPath : i \in {j \in 1..Len(io) : io[j].ok /\ io[j].call = "writeFile"}}
CreatedDirectories == UNION {io[i].created : i \in 1..Len(io)}

\* The source entry of a logged call, relative to the source root.
SourceRel(e) == SubSeq(e.sourcePath, Len(SOURCE_DIR) + 1, Len(e.sourcePath))

(***************************************************************************)
(* C1: a source tree of regular files and directories, none of them named  *)
(* in the ignore set, copied into an empty destination without any I/O     *)
(* failure: at the end of the walk the destination holds the same relative *)
(* paths as the source, every file with the contents of its source,        *)
(* filesCopied is the number of source files, bytesCopied the sum of their *)
(* sizes, and errors is empty.                                             *)
(***************************************************************************)
C1_Mirror ==
    (Completed /\ faults = 0 /\ CleanSource /\ EmptyDestination) =>
        /\ RelPathsUnder(fs, outputDir) = SourceEntries
        /\ \A r \in SourceEntries : fs[outputDir \o r] = SourceNode(r)
        /\ stats.filesCopied = Cardinality({r \in SourceEntries : SourceNode(r).kind = "file"})
        /\ stats.bytesCopied = SumSizes({r \in SourceEntries : SourceNode(r).kind = "file"})
        /\ stats.errors = <<>>

C1_Witness ==
    /\ Completed /\ faults = 0 /\ CleanSource /\ EmptyDestination
    /\ SourceEntries = {<<"a.txt">>, <<"src">>, <<"src", "util.js">>}
    /\ stats.filesCopied = 2
    /\ stats.bytesCopied = 3

(***************************************************************************)
(* C2: with an empty destination, no source directory whose name is in the *)
(* ignore set, and nothing beneath it, ever exists in the destination; and *)
(* after a walk without I/O failure every other source directory that is   *)
(* not beneath an ignored one (my-node_modules-archive among them) exists  *)
(* in the destination with the regular files it holds.                     *)
(***************************************************************************)
C2_IgnoreExact ==
    EmptyDestination =>
        /\ \A r \in SourceEntries :
              IgnoredDirectory(r) =>
                  \A q \in DOMAIN fs : ~IsPrefix(outputDir \o r, q)
        /\ (Completed /\ faults = 0) =>
              \A r \in SourceEntries :
                  (SourceNode(r).kind = "dir" /\ ~IgnoredDirectory(r) /\ ~BelowIgnored(r)) =>
                      /\ IsDir(fs, outputDir \o r)
                      /\ \A c \in SourceEntries :
                            (Len(c) = Len(r) + 1 /\ IsPrefix(r, c) /\ SourceNode(c).kind = "file")
                                => fs[outputDir \o c] = SourceNode(c)

C2_Witness ==
    /\ Completed /\ faults = 0 /\ EmptyDestination
    /\ SourceEntries = {<<"node_modules">>, <<"my-node_modules-archive">>,
                        <<"my-node_modules-archive", "z.js">>}
    /\ IsFile(fs, outputDir \o <<"my-node_modules-archive", "z.js">>)
    /\ ~Exists(fs, outputDir \o <<"node_modules">>)

(***************************************************************************)
(* C3: when the stat, read or write of one regular file is the only call   *)
(* of the walk that fails, errors holds exactly one record, of type file,  *)
(* for that file; filesCopied is the number of regular files to copy less  *)
(* one and bytesCopied the sum of the sizes of the others; and every other *)
(* file is in the destination with the contents of its source.             *)
(***************************************************************************)
C3_FileErrorIsolated ==
    (/\ Completed
     /\ Len(FailedCalls) = 1
     /\ FailedCalls[1].call \in {"stat", "readFile", "writeFile"}) =>
        LET bad == SourceRel(FailedCalls[1])
        IN  /\ Len(stats.errors) = 1
            /\ stats.errors[1].type = "file"
            /\ stats.errors[1].path = bad
            /\ stats.filesCopied = Cardinality(CopyableFiles) - 1
            /\ stats.bytesCopied = SumSizes(CopyableFiles \ {bad})
            /\ \A r \in CopyableFiles \ {bad} : fs[outputDir \o r] = SourceNode(r)

\* The failed file came first; its sibling was copied after it.
C3_Witness ==
    /\ Completed
    /\ Len(FailedCalls) = 1
    /\ \E i, j \in 1..Len(io) :
          /\ i < j
          /\ ~io[i].ok
          /\ io[i].call \in {"stat", "readFile", "writeFile"}
          /\ io[j].ok
          /\ io[j].call = "writeFile"
          /\ dirname(io[j].sourcePath) = dirname(io[i].sourcePath)
    /\ stats.filesCopied = 1

(***************************************************************************)
(* C4: when the root paths fail validation (the source is missing or no    *)
(* directory, the destination exists and is no directory or cannot be      *)
(* created) the walk is never started and main() exits at once with status *)
(* 1: no summary is printed and stats is left as created, endTime unset    *)
(* and errors empty.                                                       *)
(***************************************************************************)
InvalidRoots ==
    \/ ~IsDir(fs0, SOURCE_DIR)
    \/ Exists(fs0, outputDir) /\ ~IsDir(fs0, outputDir)
    \/ MkdirError(fs0, outputDir) # ""

ValidationFailed == validation \notin {"pending", ""}

WalkNeverStarted == stack = <<>> /\ io = <<>> /\ stats.startTime = null

C4_ValidationFailureExits ==
    /\ (validation # "pending" /\ InvalidRoots) => ValidationFailed
    /\ ValidationFailed =>
          /\ WalkNeverStarted
          /\ pc = "exited"
          /\ exitCode = 1
          /\ stdout = <<>>
          /\ stats.endTime = null
          /\ stats.errors = <<>>
          /\ fs = fs0

C4_Witness ==
    /\ validation = "Destination path exists but is not a directory"
    /\ pc = "exited"

\* C4 as first stated: a failed validation still produces a CopyStats with
\* endTime set and exactly one record, of type fatal.
C4_FatalRecordOnInvalidRoots ==
    ValidationFailed =>
        /\ WalkNeverStarted
        /\ stats.endTime # null
        /\ Len(stats.errors) = 1
        /\ stats.errors[1].type = "fatal"

(***************************************************************************)
(* C5: when the listing of the source root fails at the root call of the   *)
(* walk, errors holds exactly one record and its type is fatal.            *)
(***************************************************************************)
RootListingFailed ==
    \E i \in 1..Len(io) :
        ~io[i].ok /\ io[i].call = "readdir" /\ io[i].sourcePath = SOURCE_DIR

C5_RootFailureIsFatal ==
    RootListingFailed =>
        /\ Len(stats.errors) = 1
        /\ stats.errors[1].type = "fatal"

(***************************************************************************)
(* C6: the path of every record in errors is the path of a source entry    *)
(* relative to the source root: it never climbs out of the source root and *)
(* never names the destination.                                            *)
(***************************************************************************)
C6_ErrorPathsSourceRelative ==
    \A i \in 1..Len(stats.errors) :
        LET path == stats.errors[i].path
        IN  /\ \A k \in 1..Len(path) : path[k] # ".."
            /\ Exists(fs0, SOURCE_DIR \o path)

(***************************************************************************)
(* C7: after a SIGINT during the walk endTime is set, the summary of the   *)
(* partial stats has been printed, the exit status is not zero, filesCopied*)
(* counts no file whose write had not ended, and every directory created   *)
(* and every file written by the walk is still in the destination.         *)
(***************************************************************************)
InterruptedWalk == signal = "SIGINT" /\ stats.startTime # null

C7_Interruption ==
    /\ stats.filesCopied <= Cardinality(WrittenFiles)
    /\ InterruptedWalk =>
          /\ pc = "exited"
          /\ stats.endTime # null
          /\ stdout = <<Summary(stats)>>
          /\ exitCode # 0
          /\ exitCode # null
          /\ \A p \in WrittenFiles : IsFile(fs, p)
          /\ \A p \in CreatedDirectories : IsDir(fs, p)

\* Interrupted after the second write ended and before it was counted.
C7_Witness ==
    /\ InterruptedWalk
    /\ stack # <<>>
    /\ Top.fn = "copyFile"
    /\ Top.at = "written"
    /\ stats.filesCopied = 1
    /\ Cardinality(WrittenFiles) = 2

(***************************************************************************)
(* C8: after a walk that ran to its end without interruption the exit      *)
(* status is 0 if errors is empty and 1 if it holds any record.            *)
(***************************************************************************)
C8_ExitStatus ==
    Completed =>
        /\ exitCode \in {0, 1}
        /\ exitCode = 0 <=> stats.errors = <<>>

C8_Witness ==
    /\ Completed
    /\ exitCode = 1
    /\ \E i \in 1..Len(stats.errors) : stats.errors[i].type = "file"
    /\ \E i \in 1..Len(stats.errors) : stats.errors[i].type = "directory"

(***************************************************************************)
(* C9: directoriesCreated is the number of directories the walk created    *)
(* under the destination root, whatever the destination held before.       *)
(***************************************************************************)
C9_DirectoriesCreatedExact ==
    stats.directoriesCreated = Cardinality(CreatedDirectories \ {outputDir})

(***************************************************************************)
(* C10: when the creation or the listing of one directory other than the   *)
(* root is the only call of the walk that fails, errors holds exactly one  *)
(* record, of type directory and naming that directory; nothing beneath it *)
(* is written or created; the walk runs to its end; and every regular file *)
(* to copy outside that directory is in the destination.                   *)
(***************************************************************************)
\* A path relative to `base`, made absolute: ".." climbs one segment.
RECURSIVE Resolve(_, _)
Resolve(base, rel) ==
    IF rel = <<>> THEN base
    ELSE IF Head(rel) = ".." THEN Resolve(dirname(base), Tail(rel))
    ELSE Resolve(Append(base, Head(rel)), Tail(rel))

StrictlyBelow(p, q) == IsPrefix(p, q) /\ q # p

C10_DirectoryErrorIsolated ==
    (/\ Completed
     /\ Len(FailedCalls) = 1
     /\ FailedCalls[1].call \in {"mkdir", "readdir"}
     /\ FailedCalls[1].sourcePath # SOURCE_DIR) =>
        LET e == FailedCalls[1]
        IN  /\ Len(stats.errors) = 1
            /\ stats.errors[1].type = "directory"
            /\ Resolve(SOURCE_DIR, stats.errors[1].path) \in {e.sourcePath, e.destPath}
            /\ \A i \in 1..Len(io) : ~StrictlyBelow(e.destPath, io[i].destPath)
            /\ \A q \in DOMAIN fs : StrictlyBelow(e.destPath, q) => q \in DOMAIN fs0
            /\ \A r \in CopyableFiles :
                  ~IsPrefix(SourceRel(e), r) => fs[outputDir \o r] = SourceNode(r)

\* The directory failed first; the file next to it was copied after it.
C10_Witness ==
    /\ Completed
    /\ Len(FailedCalls) = 1
    /\ \E i, j \in 1..Len(io) :
          /\ i < j
          /\ ~io[i].ok
          /\ io[i].call \in {"mkdir", "readdir"}
          /\ io[i].sourcePath # SOURCE_DIR
          /\ io[j].ok
          /\ io[j].call = "writeFile"
          /\ dirname(io[j].sourcePath) = dirname(io[i].sourcePath)
    /\ \E r \in SourceEntries : Len(r) = 2

(***************************************************************************)
(* C11: a directory entry that is neither a regular file nor a directory   *)
(* (a symbolic link here) is skipped silently: the step that processes it  *)
(* creates nothing in the file system, logs no call, appends no error      *)
(* record, changes no counter, and leaves the loop at the next entry; and  *)
(* nothing is ever created at its path in the destination.                 *)
(***************************************************************************)
SpecialEntries == {r \in SourceEntries : SourceNode(r).kind \notin {"file", "dir"}}

AtSpecialEntry == Looping /\ Entry.kind \notin {"file", "dir"}

C11_SpecialEntriesSkipped ==
    /\ [](\A r \in SpecialEntries :
            (outputDir # <<>> /\ ~Exists(fs0, outputDir \o r)) => ~Exists(fs, outputDir \o r))
    /\ [][(AtSpecialEntry /\ signal' = signal) =>
            /\ fs' = fs
            /\ io' = io
            /\ stats' = stats
            /\ stack' = Advanced]_vars

\* The link was skipped and the file listed after it was copied.
C11_Witness ==
    /\ Walking("copyFile", "written")
    /\ SpecialEntries = {<<"link">>}
    /\ Len(stack) = 2
    /\ stack[1].entries = <<>>
    /\ Top.sourcePath = join(SOURCE_DIR, "a.txt")
    /\ stats.errors = <<>>
    /\ stats.filesCopied = 0
    /\ ~Exists(fs, join(outputDir, "link"))

(***************************************************************************)
(* C18: the ignore set applies to directories only.  A regular file whose  *)
(* name is a member of the ignore set (tmp here), not beneath an ignored   *)
(* directory, is handed to copyFile like any other file: after a walk      *)
(* without I/O failure into an empty destination it is in the destination  *)
(* with its contents, and filesCopied and bytesCopied count it.            *)
(***************************************************************************)
IgnoredNameFiles ==
    {r \in CopyableFiles : r[Len(r)] \in IgnoreSet}

CountedFiles ==
    {io[i].sourcePath : i \in {j \in 1..Len(io) : io[j].ok /\ io[j].call = "writeFile"}}
        \ (IF stack # <<>> /\ Top.fn = "copyFile" /\ Top.at = "written"
           THEN {Top.sourcePath} ELSE {})

RECURSIVE SumFileSizes(_, _)
SumFileSizes(f, S) ==
    IF S = {} THEN 0
    ELSE LET p == CHOOSE x \in S : TRUE
         IN  Len(f[p].data) + SumFileSizes(f, S \ {p})

C13_CountersMonotone ==
    /\ [](/\ stats.filesCopied = Cardinality(CountedFiles)
          /\ stats.bytesCopied = SumFileSizes(fs0, CountedFiles))
    /\ [][/\ stats'.filesCopied >= stats.filesCopied
          /\ stats'.directoriesCreated >= stats.directoriesCreated
          /\ stats'.bytesCopied >= stats.bytesCopied
          /\ (stats'.bytesCopied # stats.bytesCopied \/ stats'.filesCopied # stats.filesCopied) =>
                /\ Walking("copyFile", "written")
                /\ stats'.filesCopied = stats.filesCopied + 1
                /\ stats'.bytesCopied = stats.bytesCopied + Len(fs0[Top.sourcePath].data)]_vars

\* Two files of different sizes and a directory have been counted.
C13_Witness ==
    /\ stats.filesCopied = 2
    /\ stats.bytesCopied = 3
    /\ stats.directoriesCreated = 1
    /\ Cardinality(CountedFiles) = 2
    /\ \E p, q \in CountedFiles : Len(fs0[p].data) = 1 /\ Len(fs0[q].data) = 2

(***************************************************************************)
(* C16: startTime and endTime bound the operation.  endTime is assigned at *)
(* most once, and whenever endTime is set startTime has been set before    *)
(* it, so that startTime <= endTime and the duration of the summary is the *)
(* time the walk took - also when the interruption arrives during the      *)
(* prompts or the validation of the paths.                                 *)
(***************************************************************************)
C16_TimesBoundTheOperation ==
    stats.endTime # null =>
        \* nothing runs after the assignment, so there is no second one
        /\ pc = "exited"
        /\ stats.startTime # null
        /\ stats.startTime <= stats.endTime
        /\ stdout # <<>>
        /\ stdout[Len(stdout)].duration = stats.endTime - stats.startTime

(***************************************************************************)
(* C14: errors is append-only and each attempt has exactly one outcome.    *)
(* As claimed: every file-copy attempt and every directory attempt either  *)
(* increments its success counter or appends one error record, never both  *)
(* and never neither.  Stated on a finished walk, for the files and for    *)
(* the directories other than the root (which has no counter).             *)
(***************************************************************************)
ErrorsOfType(t) == SelectSeq(stats.errors, LAMBDA e : e.type = t)

\* The calls of the walk on the source entry p that failed.
FailuresOn(p) == SelectSeq(FailedCalls, LAMBDA e : e.sourcePath = p)

\* The directories other than the root that copyDirectory was called on.
DirectoryAttempts ==
    {io[i].sourcePath : i \in {j \in 1..Len(io) : io[j].call = "mkdir"}} \ {SOURCE_DIR}

DirectoryCounted(p) ==
    \E i \in 1..Len(io) : io[i].call = "mkdir" /\ io[i].ok /\ io[i].sourcePath = p

\* The regular files copyFile was called on: those to copy that do not lie
\* in a directory whose creation or listing failed.
FilesVisited ==
    {r \in CopyableFiles :
        \A i \in 1..Len(FailedCalls) :
            FailedCalls[i].call \in {"mkdir", "readdir"} => ~IsPrefix(SourceRel(FailedCalls[i]), r)}

C14_ExactlyOneOutcome ==
    Completed =>
        /\ stats.filesCopied + Len(ErrorsOfType("file")) = Cardinality(FilesVisited)
        /\ \A p \in DirectoryAttempts : DirectoryCounted(p) # (FailuresOn(p) # <<>>)

(***************************************************************************)
(* C14, amended: errors is append-only, one record at a time.  The step    *)
(* that ends a file-copy attempt either counts the file or appends one     *)
(* record of type file, never both and never neither.  A directory attempt *)
(* appends at most one record of type directory - one when its creation or *)
(* its listing fails - in a step that changes no counter; a directory      *)
(* other than the root whose creation succeeded is counted all the same,   *)
(* also when its listing fails afterwards.  At the end of an uninterrupted *)
(* walk filesCopied plus the number of file records is the number of       *)
(* regular files visited.                                                  *)
(***************************************************************************)
EndsAttempt(fn) == stack # <<>> /\ Top.fn = fn /\ stack' = Pop

Recorded == Len(stats'.errors) = Len(stats.errors) + 1

C14_OneOutcomePerAttempt ==
    /\ [](Completed =>
            /\ stats.filesCopied + Len(ErrorsOfType("file")) = Cardinality(FilesVisited)
            /\ Len(ErrorsOfType("directory"))
                  = Len(SelectSeq(FailedCalls, LAMBDA e : e.call \in {"mkdir", "readdir"}))
            /\ \A p \in DirectoryAttempts \cup {SOURCE_DIR} : Len(FailuresOn(p)) <= 1
            /\ \A p \in DirectoryAttempts :
                  DirectoryCounted(p) <=> (\A i \in 1..Len(FailedCalls) :
                                              FailedCalls[i].sourcePath = p
                                                  => FailedCalls[i].call = "readdir"))
    /\ [][/\ IsPrefix(stats.errors, stats'.errors)
          /\ Len(stats'.errors) <= Len(stats.errors) + 1
          /\ EndsAttempt("copyFile") =>
                (stats'.filesCopied = stats.filesCopied + 1) # Recorded
          /\ Recorded =>
                /\ stats'.filesCopied = stats.filesCopied
                /\ stats'.directoriesCreated = stats.directoriesCreated
                /\ stats'.bytesCopied = stats.bytesCopied
                /\ \/ EndsAttempt("copyFile")
                      /\ stats'.errors[Len(stats'.errors)].type = "file"
                   \/ EndsAttempt("copyDirectory")
                      /\ stats'.errors[Len(stats'.errors)].type = "directory"]_vars

\* One file copied, one file failed, and one directory both counted and
\* recorded: it was created and its listing failed.
C14_Witness ==
    /\ Completed
    /\ stats.filesCopied = 1
    /\ Len(ErrorsOfType("file")) = 1
    /\ Len(ErrorsOfType("directory")) = 1
    /\ stats.directoriesCreated = 1
    /\ \E p \in DirectoryAttempts : DirectoryCounted(p) /\ FailuresOn(p) # <<>>

(***************************************************************************)
(* C15: the walk is strictly sequential and depth-first.  Only the         *)
(* innermost call has an I/O call in flight: every call beneath it is a    *)
(* copyDirectory suspended in its loop on the entry its callee works on.   *)
(* The counters and errors account for every call that has completed,      *)
(* but for the one file whose write has just returned, before any call for *)
(* another entry is issued.  And the calls made inside a directory are     *)
(* consecutive: once the walk has left a directory for its next sibling it *)
(* never comes back.                                                       *)
(***************************************************************************)
InFlight(frame) == frame.at # "loop"

OkCalls(call) == SelectSeq(io, LAMBDA e : e.ok /\ e.call = call)

WriteReturned == stack # <<>> /\ Top.fn = "copyFile" /\ Top.at = "written"

C15_Sequential ==
    /\ \A i \in 1..(Len(stack) - 1) :
          /\ stack[i].fn = "copyDirectory"
          /\ ~InFlight(stack[i])
          /\ dirname(stack[i + 1].sourcePath) = stack[i].sourcePath
    /\ Len(stats.errors) = Len(FailedCalls)
    /\ stats.filesCopied = Len(OkCalls("writeFile")) - (IF WriteReturned THEN 1 ELSE 0)
    /\ stats.directoriesCreated
          = Len(SelectSeq(OkCalls("mkdir"), LAMBDA e : e.sourcePath # SOURCE_DIR))
    /\ \A i, j, k \in 1..Len(io) :
          (i < j /\ j < k) =>
              \A n \in 1..Len(io[i].sourcePath) :
                  LET X == SubSeq(io[i].sourcePath, 1, n)
                  IN  IsPrefix(X, io[k].sourcePath) => IsPrefix(X, io[j].sourcePath)

\* Three calls deep, after a file of the root: the write of a file in a
\* subdirectory has returned and is not counted yet.
C15_Witness ==
    /\ pc = "walk"
    /\ Len(stack) = 3
    /\ WriteReturned
    /\ Len(OkCalls("writeFile")) = 2
    /\ stats.filesCopied = 1
    /\ stats.directoriesCreated = 1
    /\ stack[1].entries = <<>>

(***************************************************************************)
(* C12: the script run twice on the same unchanged source and the same     *)
(* destination, without I/O failure in either run.  After the second run   *)
(* the file system is what the first run left, the counters of the second  *)
(* run are those of the first, and when the destination was empty to begin *)
(* with filesCopied and bytesCopied are the number and the total size of   *)
(* the files to copy: the counters start from zero in each run.            *)
(***************************************************************************)
SecondRunCompleted ==
    /\ earlier # <<>>
    /\ Completed
    /\ faults = 0
    /\ SOURCE_DIR = earlier[1].SOURCE_DIR
    /\ outputDir = earlier[1].outputDir

C12_SecondRunIdempotent ==
    SecondRunCompleted =>
        /\ fs = earlier[1].fs
        /\ stats.filesCopied = earlier[1].stats.filesCopied
        /\ stats.bytesCopied = earlier[1].stats.bytesCopied
        /\ stats.directoriesCreated = earlier[1].stats.directoriesCreated
        /\ EmptyDestination =>
              /\ stats.filesCopied = Cardinality(CopyableFiles)
              /\ stats.bytesCopied = SumSizes(CopyableFiles)

\* Two files and a directory, copied into an empty destination twice.
C12_Witness ==
    /\ SecondRunCompleted
    /\ EmptyDestination
    /\ SourceEntries = {<<"a.txt">>, <<"src">>, <<"src", "util.js">>}
    /\ earlier[1].stats.filesCopied = 2
    /\ stats.filesCopied = 2
    /\ stats.bytesCopied = 3
    /\ WrittenFiles = {join(outputDir, "a.txt"), outputDir \o <<"src", "util.js">>}

(***************************************************************************)
(* C17: the walk is bounded by the source tree it was started on, also     *)
(* when the destination lies inside the source: it enters each directory   *)
(* of that tree at most once and copies each of its regular files at most  *)
(* once, and once it has ended endTime is set.                             *)
(***************************************************************************)
\* The source tree when the walk starts: what the script was started on,
\* and the destination directory that validatePaths created inside it.
SourceDirectoriesAtStart ==
    {q \in DOMAIN fs0 : IsPrefix(SOURCE_DIR, q) /\ fs0[q].kind = "dir"}
        \cup (IF IsPrefix(SOURCE_DIR, outputDir) THEN {outputDir} ELSE {})

DirectoriesEntered == {io[i].sourcePath : i \in {j \in 1..Len(io) : io[j].call = "mkdir"}}

FilesCopiedFrom == {io[i].sourcePath : i \in {j \in 1..Len(io) : io[j].ok /\ io[j].call = "writeFile"}}

C17_WalkBoundedBySource ==
    /\ DirectoriesEntered \subseteq SourceDirectoriesAtStart
    /\ FilesCopiedFrom \subseteq {SOURCE_DIR \o r : r \in CopyableFiles}
    /\ Len(OkCalls("writeFile")) <= Cardinality(CopyableFiles)
    /\ stats.filesCopied <= Cardinality(CopyableFiles)
    /\ (pc = "exited" /\ signal = "none" /\ validation = "") => stats.endTime # null

====
